---- MODULE Spec2Model ----
(***************************************************************************)
(* A model of the grid-diagram core of mwalczyk/knots (src/src/diagram.rs):*)
(* the Diagram struct, its construction and validation, the Cromwell moves *)
(* of apply_move, and the circuit extraction of generate_knot; of the      *)
(* Polyline queries (src/src/polyline.rs, src/src/graphics/polyline.rs);   *)
(* and of the Knot relaxation (src/src/knot.rs).                           *)
(*                                                                         *)
(* Indices are 0-based as in the Rust source; TLA+ sequences are 1-based,  *)
(* so the Vec helpers below add 1 when they touch a sequence.              *)
(***************************************************************************)
EXTENDS Integers, Sequences, FiniteSets, TLC

VARIABLES
    input,          \* the records from_path is about to read (construction only)
    data,           \* Diagram.data      : Vec<Vec<char>>
    resolution,     \* Diagram.resolution: usize
    op,             \* the last call: "start", "from_path", "apply_move", "generate_knot"
    move,           \* the CromwellMove handed to the last apply_move
    outcome,        \* how the last call ended: "Ok", a typed failure, or "panic"
    old_data,       \* data as it was when the last call was entered
    old_resolution, \* resolution as it was when the last call was entered
    base_topology,  \* generate_knot: knot_topology when the length assertion is reached
    knot_topology,  \* generate_knot: knot_topology after the crossings are inserted
    lifted,         \* generate_knot: the lifted vector
    path,           \* generate_knot: the vertices of the polyline before refine
    origin,         \* sequences of moves: the grid the sequence started from
    trail,          \* sequences of moves: the moves applied so far
    polyline,       \* Polyline.vertices of the polyline under query
    query,          \* the last Polyline call: << name, argument >>
    answer,         \* what the last Polyline call returned
    rope,           \* Knot.rope   : the vertices of the polyline
    anchors,        \* Knot.anchors: Vec<Vector3<f32>>
    knot_p,         \* Knot.p      : positions
    knot_v,         \* Knot.v      : velocities
    knot_a,         \* Knot.a      : accelerations
    built,          \* the vertices Knot::new was given
    old_p,          \* Knot.p as it was when the last relax() was entered
    old_v,          \* Knot.v as it was when the last relax() was entered
    steps           \* the number of relax() calls so far

diagramVars == << input, data, resolution, op, move, outcome, old_data,
                  old_resolution, base_topology, knot_topology, lifted,
                  path >>

trailVars == << origin, trail >>

polylineVars == << polyline, query, answer >>

knotVars == << rope, anchors, knot_p, knot_v, knot_a, built, old_p, old_v,
              steps >>

vars == << diagramVars, trailVars, polylineVars, knotVars >>

----------------------------------------------------------------------------
(* Bounds of the model. *)

\* Largest resolution a diagram takes: initial diagrams are drawn up to this
\* size and a Stabilization is only called below it.
MaxRes == 4

\* Largest number of rows and of columns of a matrix handed to from_path in
\* the construction specification.
MaxDim == 2

\* Largest resolution of a diagram a sequence of translations starts from,
\* and the largest number of translations in a sequence.
MaxTrailRes == 3

MaxTrail == 3

\* Largest number of times a commutation is applied in a row.
MaxCommutes == 2

\* Largest number of vertices of a polyline, and the largest coordinate of a
\* vertex counted in steps of starting_length.
MaxVerts == 4

MaxCoord == 2

\* Largest number of relax() calls on a knot.
MaxSteps == 3

----------------------------------------------------------------------------
(* Cell markers, directions, axes, cardinalities. *)

Marker == {" ", "x", "o"}

Direction == {"Up", "Down", "Left", "Right"}

Axis == {"Row", "Column"}

Cardinality_ == {"NW", "SW", "NE", "SE"}

\* The error messages of diagram.rs, under the names the specification gives them.
NotSquare == "NotSquare"
InvalidMarking == "InvalidMarking"
NoAdjacentLine == "NoAdjacentLine"
InterleavedLines == "InterleavedLines"
NotAnOverMark == "NotAnOverMark"

----------------------------------------------------------------------------
(* Vec<T> operations, with 0-based indices. *)

VecSet(v, k, e) == [v EXCEPT ![k + 1] = e]

\* Vec::remove(k): the vector without its k-th element.
VecRemove(v, k) == SubSeq(v, 1, k) \o SubSeq(v, k + 2, Len(v))

\* Vec::insert(k, e): e becomes the k-th element, the rest shifts right.
VecInsert(v, k, e) == SubSeq(v, 1, k) \o << e >> \o SubSeq(v, k + 1, Len(v))

\* slice::swap(a, b)
VecSwap(v, a, b) == [v EXCEPT ![a + 1] = v[b + 1], ![b + 1] = v[a + 1]]

\* vec![e; n]
VecRepeat(e, n) == [k \in 1..n |-> e]

VecContains(v, e) == \E k \in 1..Len(v) : v[k] = e

\* str::find(ch): the first position of ch, or None (here -1).
None == 0 - 1

find(line, ch) ==
    IF \E k \in 1..Len(line) : line[k] = ch
    THEN (CHOOSE k \in 1..Len(line) :
              line[k] = ch /\ \A m \in 1..(k - 1) : line[m] # ch) - 1
    ELSE None

\* str::matches(ch).count()
count(line, ch) == Cardinality({k \in 1..Len(line) : line[k] = ch})

----------------------------------------------------------------------------
(* Diagram: rows, columns, validation, construction. *)

get_row(d, i) == d[i + 1]

get_column(d, i) == [r \in 1..Len(d) |-> d[r][i + 1]]

exchange_rows(d, a, b) == VecSwap(d, a, b)

exchange_columns(d, a, b) == [r \in 1..Len(d) |-> VecSwap(d[r], a, b)]

\* validate that looks at the rows only: a plausible slip.
validate_rows_only(d, n) ==
    \A index \in 0..(n - 1) :
        ~ ( \/ count(get_row(d, index), "x") # 1
            \/ count(get_row(d, index), "o") # 1 )

\* validate: TRUE for Ok(()), FALSE for the "Invalid grid diagram" error.
validate(d, n) ==
    \A index \in 0..(n - 1) :
        ~ ( \/ count(get_row(d, index), "x") # 1
            \/ count(get_row(d, index), "o") # 1
            \/ count(get_column(d, index), "x") # 1
            \/ count(get_column(d, index), "o") # 1 )

\* from_path on the records m of the file (every field one character).  The
\* extension test of lines 82-84 compares Path::extension(), which never
\* carries the dot, with ".csv": it rejects no path and is left out.
from_path(m) ==
    LET number_of_rows == Len(m)
        res == IF number_of_rows = 0 THEN 0 ELSE Len(m[number_of_rows])
    IN  IF res # number_of_rows
        THEN [outcome |-> NotSquare, data |-> << >>, resolution |-> 0]
        ELSE IF validate(m, res)
             THEN [outcome |-> "Ok", data |-> m, resolution |-> res]
             ELSE [outcome |-> InvalidMarking, data |-> << >>, resolution |-> 0]

----------------------------------------------------------------------------
(* apply_move.  Every move returns the record                              *)
(*   [outcome, data, resolution]                                           *)
(* outcome "Ok" for Ok(self), a typed failure for Err(..), and "panic"     *)
(* when the call panics (an index out of bounds, a failed assertion, an    *)
(* arithmetic overflow); a call that panics or fails before it mutates     *)
(* leaves data and resolution as they were.                                *)

Result(o, d, n) == [outcome |-> o, data |-> d, resolution |-> n]

\* Translation whose Down and Right rotate the same way as Up and Left.
TranslationOneWay(d, n, direction) ==
    IF direction \in {"Up", "Down"}
    THEN IF Len(d) = 0 THEN Result("panic", d, n)
         ELSE Result("Ok", Append(VecRemove(d, 0), d[1]), n)
    ELSE IF \E r \in 1..Len(d) : Len(d[r]) = 0 THEN Result("panic", d, n)
         ELSE Result("Ok",
                     [r \in 1..Len(d) |-> Append(VecRemove(d[r], 0), d[r][1])], n)

\* Translation whose Up and Down rotate the columns and whose Left and Right
\* rotate the rows.
TranslationAcross(d, n, direction) ==
    CASE direction = "Left" -> Result("Ok", Append(Tail(d), d[1]), n)
      [] direction = "Right" ->
            Result("Ok", << d[Len(d)] >> \o SubSeq(d, 1, Len(d) - 1), n)
      [] direction = "Up" ->
            Result("Ok", [r \in 1..Len(d) |-> Append(Tail(d[r]), d[r][1])], n)
      [] direction = "Down" ->
            Result("Ok",
                   [r \in 1..Len(d) |->
                       << d[r][Len(d[r])] >> \o SubSeq(d[r], 1, Len(d[r]) - 1)], n)

\* CromwellMove::Translation(direction)
Translation(d, n, direction) ==
    CASE direction = "Up" ->
            \* Vec::remove(0) panics on an empty vector
            IF Len(d) = 0 THEN Result("panic", d, n)
            ELSE Result("Ok", Append(VecRemove(d, 0), d[1]), n)
      [] direction = "Down" ->
            \* Vec::pop() is None on an empty vector
            IF Len(d) = 0 THEN Result("Ok", d, n)
            ELSE Result("Ok", VecInsert(SubSeq(d, 1, Len(d) - 1), 0, d[Len(d)]), n)
      [] direction = "Left" ->
            IF \E r \in 1..Len(d) : Len(d[r]) = 0 THEN Result("panic", d, n)
            ELSE Result("Ok",
                        [r \in 1..Len(d) |-> Append(VecRemove(d[r], 0), d[r][1])], n)
      [] direction = "Right" ->
            Result("Ok",
                   [r \in 1..Len(d) |->
                       IF Len(d[r]) = 0 THEN d[r]
                       ELSE VecInsert(SubSeq(d[r], 1, Len(d[r]) - 1), 0,
                                      d[r][Len(d[r])])], n)

\* char::is_alphabetic on the three markers: false for the space only.
is_alphabetic(c) == c # " "

\* str::match_indices(char::is_alphabetic): the matching positions, ascending.
RECURSIVE match_indices_from(_, _)
match_indices_from(line, k) ==
    IF k >= Len(line) THEN << >>
    ELSE IF is_alphabetic(line[k + 1])
         THEN << k >> \o match_indices_from(line, k + 1)
         ELSE match_indices_from(line, k + 1)

match_indices(line) == match_indices_from(line, 0)

\* The comparison chain of are_interleaved, non-strict: a plausible slip.
interleaved_test_nonstrict(a_start, a_end, b_start, b_end) ==
    ~ ( \/ (a_start >= b_start /\ a_end <= b_end)
        \/ (b_start >= a_start /\ b_end <= a_end)
        \/ a_end < b_start
        \/ a_start > b_end
        \/ b_end < a_start
        \/ b_start > a_end )

\* The comparison chain without the test for b inside a.
interleaved_test_one_sided(a_start, a_end, b_start, b_end) ==
    ~ ( \/ (a_start > b_start /\ a_end < b_end)
        \/ a_end < b_start
        \/ a_start > b_end
        \/ b_end < a_start
        \/ b_start > a_end )

\* The comparison chain that takes lines meeting end to start for lines apart.
interleaved_test_meeting_apart(a_start, a_end, b_start, b_end) ==
    ~ ( \/ (a_start > b_start /\ a_end < b_end)
        \/ (b_start > a_start /\ b_end < a_end)
        \/ a_end <= b_start
        \/ a_start >= b_end
        \/ b_end <= a_start
        \/ b_start >= a_end )

\* The comparison chain of are_interleaved on the two lines' first and last marks.
interleaved_test(a_start, a_end, b_start, b_end) ==
    IF a_start > b_start /\ a_end < b_end THEN FALSE        \* a inside b
    ELSE IF b_start > a_start /\ b_end < a_end THEN FALSE   \* b inside a
    ELSE IF a_end < b_start THEN FALSE                      \* a above b
    ELSE IF a_start > b_end THEN FALSE                      \* a below b
    ELSE IF b_end < a_start THEN FALSE                      \* b above a
    ELSE IF b_start > a_end THEN FALSE                      \* b below a
    ELSE TRUE

\* The two assert_eq!(matches.len(), 2) of are_interleaved: TRUE when one fails.
are_interleaved_panics(row_or_column_a, row_or_column_b) ==
    \/ Len(match_indices(row_or_column_a)) # 2
    \/ Len(match_indices(row_or_column_b)) # 2

\* are_interleaved, once its assertions have passed.
are_interleaved(row_or_column_a, row_or_column_b) ==
    LET matches_a == match_indices(row_or_column_a)
        matches_b == match_indices(row_or_column_b)
    IN  interleaved_test(matches_a[1], matches_a[2], matches_b[1], matches_b[2])

\* Commutation that exchanges the lines before it tests them: a plausible slip.
CommutationSwapsFirst(d, n, axis, start_index) ==
    IF n = 0 THEN Result("panic", d, n)
    ELSE IF start_index = n - 1 THEN Result(NoAdjacentLine, d, n)
    ELSE IF start_index >= n THEN Result("panic", d, n)
    ELSE
        LET a == IF axis = "Row" THEN get_row(d, start_index + 0)
                 ELSE get_column(d, start_index + 0)
            b == IF axis = "Row" THEN get_row(d, start_index + 1)
                 ELSE get_column(d, start_index + 1)
            swapped == IF axis = "Row"
                       THEN exchange_rows(d, start_index + 0, start_index + 1)
                       ELSE exchange_columns(d, start_index + 0, start_index + 1)
        IN  IF are_interleaved_panics(a, b) THEN Result("panic", d, n)
            ELSE IF ~are_interleaved(a, b) THEN Result("Ok", swapped, n)
            ELSE Result(InterleavedLines, swapped, n)

\* CromwellMove::Commutation { axis, start_index }
Commutation(d, n, axis, start_index) ==
    \* `self.resolution - 1` on a usize: with resolution 0 a debug build panics on
    \* the overflow; a release build wraps to usize::MAX, which no start_index of
    \* the model equals, and get_row / get_column then index out of bounds.
    IF n = 0 THEN Result("panic", d, n)
    ELSE IF start_index = n - 1 THEN Result(NoAdjacentLine, d, n)
    \* get_row(start_index) / get_column(start_index) index out of bounds
    ELSE IF start_index >= n THEN Result("panic", d, n)
    ELSE
        LET a == IF axis = "Row" THEN get_row(d, start_index + 0)
                 ELSE get_column(d, start_index + 0)
            b == IF axis = "Row" THEN get_row(d, start_index + 1)
                 ELSE get_column(d, start_index + 1)
        IN  IF are_interleaved_panics(a, b) THEN Result("panic", d, n)
            ELSE IF ~are_interleaved(a, b)
                 THEN Result("Ok",
                             IF axis = "Row"
                             THEN exchange_rows(d, start_index + 0, start_index + 1)
                             ELSE exchange_columns(d, start_index + 0, start_index + 1),
                             n)
            ELSE Result(InterleavedLines, d, n)

\* The first match of Stabilization: one blank column, on the wrong side.
insert_column_wrong_side(d, cardinality, j) ==
    [r \in 1..Len(d) |->
        VecInsert(d[r], IF cardinality \in {"NW", "SW"} THEN j + 0 ELSE j + 1, " ")]

\* The first match of Stabilization: a blank cell is inserted into every row,
\* right of column j for NW and SW, at column j (left of it) for NE and SE.
insert_column(d, cardinality, j) ==
    [r \in 1..Len(d) |->
        VecInsert(d[r], IF cardinality \in {"NW", "SW"} THEN j + 1 ELSE j + 0, " ")]

\* The second match of Stabilization with the extra row's two marks exchanged.
insert_row_marks_exchanged(d, n, cardinality, i, j) ==
    LET w_row == IF cardinality \in {"NW", "SW"}
                 THEN VecSet(VecSet(d[i + 1], j + 0, " "), j + 1, "x")
                 ELSE VecSet(VecSet(d[i + 1], j + 0, "x"), j + 1, " ")
        blank == VecRepeat(" ", n)
        extra_row == IF cardinality \in {"NW", "SW"}
                     THEN VecSet(VecSet(blank, j + 0, "o"), j + 1, "x")
                     ELSE VecSet(VecSet(blank, j + 0, "x"), j + 1, "o")
        written == VecSet(d, i, w_row)
    IN  VecInsert(written, IF cardinality \in {"NW", "NE"} THEN i + 1 ELSE i + 0,
                  extra_row)

\* The second match of Stabilization with the extra row always inserted below.
insert_row_always_below(d, n, cardinality, i, j) ==
    LET w_row == IF cardinality \in {"NW", "SW"}
                 THEN VecSet(VecSet(d[i + 1], j + 0, " "), j + 1, "x")
                 ELSE VecSet(VecSet(d[i + 1], j + 0, "x"), j + 1, " ")
        blank == VecRepeat(" ", n)
        extra_row == IF cardinality \in {"NW", "SW"}
                     THEN VecSet(VecSet(blank, j + 0, "x"), j + 1, "o")
                     ELSE VecSet(VecSet(blank, j + 0, "o"), j + 1, "x")
        written == VecSet(d, i, w_row)
    IN  VecInsert(written, i + 1, extra_row)

\* The second match of Stabilization, on the widened data d and the incremented
\* resolution n: row i's cells j and j+1 are written, then the extra row is
\* built and inserted below row i (NW, NE) or at row i, above it (SW, SE).
insert_row(d, n, cardinality, i, j) ==
    LET w_row == IF cardinality \in {"NW", "SW"}
                 THEN VecSet(VecSet(d[i + 1], j + 0, " "), j + 1, "x")
                 ELSE VecSet(VecSet(d[i + 1], j + 0, "x"), j + 1, " ")
        blank == VecRepeat(" ", n)
        extra_row == IF cardinality \in {"NW", "SW"}
                     THEN VecSet(VecSet(blank, j + 0, "x"), j + 1, "o")
                     ELSE VecSet(VecSet(blank, j + 0, "o"), j + 1, "x")
        written == VecSet(d, i, w_row)
    IN  VecInsert(written, IF cardinality \in {"NW", "NE"} THEN i + 1 ELSE i + 0,
                  extra_row)

\* Stabilization that only refuses a blank cell: a plausible slip.
StabilizationOnAnyMark(d, n, cardinality, i, j) ==
    IF i >= Len(d) THEN Result("panic", d, n)
    ELSE IF j >= Len(d[i + 1]) THEN Result("panic", d, n)
    ELSE IF d[i + 1][j + 1] = " " THEN Result(NotAnOverMark, d, n)
    ELSE Result("Ok", insert_row(insert_column(d, cardinality, j), n + 1,
                                 cardinality, i, j), n + 1)

\* Stabilization that grows the grid and forgets self.resolution += 1.
StabilizationKeepsResolution(d, n, cardinality, i, j) ==
    IF i >= Len(d) THEN Result("panic", d, n)
    ELSE IF j >= Len(d[i + 1]) THEN Result("panic", d, n)
    ELSE IF d[i + 1][j + 1] # "x" THEN Result(NotAnOverMark, d, n)
    ELSE Result("Ok", insert_row(insert_column(d, cardinality, j), n + 1,
                                 cardinality, i, j), n)

\* CromwellMove::Stabilization { cardinality, i, j }
Stabilization(d, n, cardinality, i, j) ==
    \* self.data[i][j] indexes out of bounds
    IF i >= Len(d) THEN Result("panic", d, n)
    ELSE IF j >= Len(d[i + 1]) THEN Result("panic", d, n)
    ELSE IF d[i + 1][j + 1] # "x" THEN Result(NotAnOverMark, d, n)
    ELSE Result("Ok", insert_row(insert_column(d, cardinality, j), n + 1,
                                 cardinality, i, j), n + 1)

\* The moves as uniform tuples
\*   << kind, direction, axis, start_index, cardinality, i, j >>
\* a component a move does not have holds a filler.
TranslationMove(direction) == << "Translation", direction, "-", 0, "-", 0, 0 >>

CommutationMove(axis, start_index) ==
    << "Commutation", "-", axis, start_index, "-", 0, 0 >>

StabilizationMove(cardinality, i, j) ==
    << "Stabilization", "-", "-", 0, cardinality, i, j >>

NoMove == << "-", "-", "-", 0, "-", 0, 0 >>

KindOf(mv) == mv[1]

DirectionOf(mv) == mv[2]

AxisOf(mv) == mv[3]

StartIndexOf(mv) == mv[4]

CardinalityOf(mv) == mv[5]

IOf(mv) == mv[6]

JOf(mv) == mv[7]

\* apply_move: the match on the move.
apply_move(d, n, cromwell) ==
    CASE KindOf(cromwell) = "Translation" -> Translation(d, n, DirectionOf(cromwell))
      [] KindOf(cromwell) = "Commutation" ->
            Commutation(d, n, AxisOf(cromwell), StartIndexOf(cromwell))
      [] KindOf(cromwell) = "Stabilization" ->
            Stabilization(d, n, CardinalityOf(cromwell), IOf(cromwell), JOf(cromwell))

----------------------------------------------------------------------------
(* generate_knot: the base circuit and the insertion of the crossings.     *)

\* convert_to_absolute_index with its two arguments exchanged.
convert_to_absolute_index_row_major(n, i, j) == j + i * n

convert_to_absolute_index(n, i, j) == i + j * n

\* convert_to_grid_indices: << i, j >>
convert_to_grid_indices(n, absolute_index) ==
    << absolute_index % n, absolute_index \div n >>

\* The while loop of generate_knot from the state (topology, e,
\* traverse_horizontal); [panic, topology]: panic when a find(..).unwrap()
\* meets None.  The loop appends a new index or closes with tie and stops.
RECURSIVE walk(_, _, _, _, _, _)
walk(d, n, tie, topology, e, traverse_horizontal) ==
    LET slice == IF traverse_horizontal THEN get_row(d, e) ELSE get_column(d, e)
        next_index == find(slice, IF traverse_horizontal THEN "x" ELSE "o")
        absolute_index == IF traverse_horizontal
                          THEN convert_to_absolute_index(n, e, next_index)
                          ELSE convert_to_absolute_index(n, next_index, e)
    IN  IF next_index = None THEN [panic |-> TRUE, topology |-> topology]
        ELSE IF ~VecContains(topology, absolute_index)
             THEN walk(d, n, tie, Append(topology, absolute_index), next_index,
                       ~traverse_horizontal)
             ELSE [panic |-> FALSE, topology |-> Append(topology, tie)]

\* Lines 368-429: s, e, tie, the first two entries and the loop.
base_circuit(d, n) ==
    LET s == find(get_column(d, 0), "x")
        e == find(get_column(d, 0), "o")
    IN  IF s = None \/ e = None THEN [panic |-> TRUE, topology |-> << >>]
        ELSE walk(d, n, s,
                  << convert_to_absolute_index(n, s, 0),
                     convert_to_absolute_index(n, e, 0) >>,
                  e, TRUE)

\* slice::chunks(2): the k-th chunk (k from 0) of v, as << first, second >>.
chunk(v, k) == << v[2 * k + 1], v[2 * k + 2] >>

\* intersections that also counts an edge touching the other at an endpoint.
RECURSIVE intersections_from_touching(_, _, _, _, _)
intersections_from_touching(n, rows, col_s, col_e, k) ==
    IF 2 * k + 2 > Len(rows) THEN << >>
    ELSE
        LET c == chunk(rows, k)
            row_s == IF c[1] > c[2] THEN c[2] ELSE c[1]
            row_e == IF c[1] > c[2] THEN c[1] ELSE c[2]
            cs == << col_s % n, col_s \div n >>
            ce == << col_e % n, col_e \div n >>
            rs == << row_s % n, row_s \div n >>
            re == << row_e % n, row_e \div n >>
            rest == intersections_from_touching(n, rows, col_s, col_e, k + 1)
        IN  IF cs[2] >= rs[2] /\ cs[2] <= re[2] /\ cs[1] <= rs[1] /\ ce[1] >= rs[1]
            THEN << << rs[1], rs[1] + cs[2] * n >> >> \o rest
            ELSE rest

\* The row chunks from the k-th on that the column edge (col_s, col_e),
\* already ordered, intersects: the pairs << rs_i, intersect >> in chunk order.
RECURSIVE intersections_from(_, _, _, _, _)
intersections_from(n, rows, col_s, col_e, k) ==
    IF 2 * k + 2 > Len(rows) THEN << >>
    ELSE
        LET c == chunk(rows, k)
            row_s == IF c[1] > c[2] THEN c[2] ELSE c[1]
            row_e == IF c[1] > c[2] THEN c[1] ELSE c[2]
            cs == convert_to_grid_indices(n, col_s)
            ce == convert_to_grid_indices(n, col_e)
            rs == convert_to_grid_indices(n, row_s)
            re == convert_to_grid_indices(n, row_e)
            rest == intersections_from(n, rows, col_s, col_e, k + 1)
        IN  IF cs[2] > rs[2] /\ cs[2] < re[2] /\ cs[1] < rs[1] /\ ce[1] > rs[1]
            THEN << << rs[1], convert_to_absolute_index(n, rs[1], cs[2]) >> >> \o rest
            ELSE rest

\* sort_by_key(|k| k.0): a stable insertion sort on the first component.
RECURSIVE sort_by_key(_)
sort_by_key(v) ==
    IF Len(v) <= 1 THEN v
    ELSE LET sorted == sort_by_key(SubSeq(v, 1, Len(v) - 1))
             last == v[Len(v)]
             before == Cardinality({k \in 1..Len(sorted) : sorted[k][1] <= last[1]})
         IN  SubSeq(sorted, 1, before) \o << last >>
             \o SubSeq(sorted, before + 1, Len(sorted))

\* reverse that leaves the vector as it is.
reverse_forgotten(v) == v

reverse(v) == [k \in 1..Len(v) |-> v[Len(v) + 1 - k]]

\* The inner loop of lines 506-508: every intersection is inserted at the same
\* position `at` of the topology, in turn.
RECURSIVE insert_all(_, _, _, _)
insert_all(topology, at, intersections, k) ==
    IF k > Len(intersections) THEN topology
    ELSE insert_all(VecInsert(topology, at, intersections[k][2]), at,
                    intersections, k + 1)

\* Lines 503-511 with the crossing written over the next entry, not inserted.
splice_overwrites(topology, col_s, col_e, intersections) ==
    IF \E p \in 1..Len(topology) : topology[p] = col_s \/ topology[p] = col_e
    THEN LET index == (CHOOSE p \in 1..Len(topology) :
                          /\ (topology[p] = col_s \/ topology[p] = col_e)
                          /\ \A q \in 1..(p - 1) :
                                 topology[q] # col_s /\ topology[q] # col_e) - 1
         IN  IF Len(intersections) = 0 THEN topology
             ELSE VecSet(topology, index + 1, intersections[1][2])
    ELSE topology

\* Lines 503-511: the crossings go in after the first entry of the topology
\* that is one of the column edge's endpoints.
splice(topology, col_s, col_e, intersections) ==
    IF \E p \in 1..Len(topology) : topology[p] = col_s \/ topology[p] = col_e
    THEN LET index == (CHOOSE p \in 1..Len(topology) :
                          /\ (topology[p] = col_s \/ topology[p] = col_e)
                          /\ \A q \in 1..(p - 1) :
                                 topology[q] # col_s /\ topology[q] # col_e) - 1
         IN  insert_all(topology, index + 1, intersections, 1)
    ELSE topology

\* The for loop over cols.chunks(2) (lines 452-513) from the k-th column chunk
\* on, threading knot_topology and lifted: [topology, lifted].
RECURSIVE insert_crossings(_, _, _, _, _, _)
insert_crossings(n, cols, rows, topology, lift, k) ==
    IF 2 * k + 2 > Len(cols) THEN [topology |-> topology, lifted |-> lift]
    ELSE
        LET c == chunk(cols, k)
            oriented_upwards == c[1] > c[2]
            col_s == IF oriented_upwards THEN c[2] ELSE c[1]
            col_e == IF oriented_upwards THEN c[1] ELSE c[2]
            found == intersections_from(n, rows, col_s, col_e, 0)
            sorted == sort_by_key(found)
            ordered == IF ~oriented_upwards THEN reverse(sorted) ELSE sorted
        IN  insert_crossings(n, cols, rows,
                             splice(topology, col_s, col_e, ordered),
                             lift \o [q \in 1..Len(found) |-> found[q][2]],
                             k + 1)

\* generate_knot up to the resolved knot_topology and lifted (lines 364-513):
\* [outcome, base, topology, lifted]; the outcome is "panic" when an unwrap
\* meets None or when assert_eq!(knot_topology.len(), resolution * 2 + 1) fails.
generate_knot(d, n) ==
    LET b == base_circuit(d, n)
        none == [outcome |-> "panic", base |-> b.topology, topology |-> << >>,
                 lifted |-> << >>]
    IN  IF b.panic THEN none
        ELSE IF Len(b.topology) # n * 2 + 1 THEN none
        ELSE LET rows == VecRemove(b.topology, 0)
                 cols == SubSeq(b.topology, 1, Len(b.topology) - 1)
                 r == insert_crossings(n, cols, rows, b.topology, << >>, 0)
             IN  [outcome |-> "Ok", base |-> b.topology, topology |-> r.topology,
                  lifted |-> r.lifted]

----------------------------------------------------------------------------
(* Polyline and Segment.                                                   *)
(*                                                                         *)
(* The polylines of the model lie on the x axis (y = z = 0), so a          *)
(* Vector3<f32> is its x coordinate, a magnitude is an absolute value and  *)
(* a normalized nonzero vector is a sign.  An f32 is a fixed-point number: *)
(* an integer count of units of d_max (0.0125), so that 1.0 is 80 units; a *)
(* quotient that is not a whole number of units is truncated toward zero.  *)
(* A parameter t is the fraction t_num / t_den.                            *)

\* d_max = starting_length * 0.025 is the unit; starting_length is 0.5.
d_max == 1

starting_length == 40

Abs(x) == IF x < 0 THEN 0 - x ELSE x

Sign(x) == IF x < 0 THEN 0 - 1 ELSE IF x > 0 THEN 1 ELSE 0

\* An f32 quotient x / y, y positive, truncated to a whole number of units.
TruncDiv(x, y) == Sign(x) * (Abs(x) \div y)

\* InnerSpace::magnitude
magnitude(x) == Abs(x)

get_number_of_vertices(vertices) == Len(vertices)

\* Polyline::get_segment(index): << a, b >>
get_segment(vertices, index) == << vertices[index + 1], vertices[index + 2] >>

\* Segment::length
segment_length(segment) == magnitude(segment[2] - segment[1])

\* Segment::point_at(t), t = t_num / t_den: << outcome, point >>.  A t_den of
\* zero is the division x / 0.0, which is NaN or an infinity and fails the
\* assertion 0.0 <= t <= 1.0 like every t out of range.
segment_point_at(segment, t_num, t_den) ==
    IF t_den = 0 \/ t_num < 0 \/ t_num > t_den THEN << "panic", 0 >>
    ELSE << "Ok", segment[1] + TruncDiv((segment[2] - segment[1]) * t_num, t_den) >>

\* Polyline::length from segment index on; the caller has checked that the
\* polyline has a vertex.
RECURSIVE length_from(_, _)
length_from(vertices, index) ==
    IF index >= get_number_of_vertices(vertices) - 1 THEN 0
    ELSE segment_length(get_segment(vertices, index)) + length_from(vertices, index + 1)

\* Polyline::length: << outcome, length >>; on no vertex at all the usize
\* subtraction len() - 1 overflows (a panic, or a wrapped bound that makes
\* get_segment(0) index out of bounds).
length(vertices) ==
    IF get_number_of_vertices(vertices) = 0 THEN << "panic", 0 >>
    ELSE << "Ok", length_from(vertices, 0) >>

\* The loop of Polyline::point_at from segment index on, traversed being the
\* length of the segments before it: << outcome, point >>; the point is
\* Vector3::zero() when no segment reaches the desired length.
RECURSIVE point_at_from(_, _, _, _)
point_at_from(vertices, desired_length, index, traversed) ==
    IF index >= get_number_of_vertices(vertices) - 1 THEN << "Ok", 0 >>
    ELSE
        LET segment == get_segment(vertices, index)
            reached == traversed + segment_length(segment)
            along_segment == reached - desired_length
        IN  IF reached >= desired_length
            THEN segment_point_at(segment, segment_length(segment) - along_segment,
                                  segment_length(segment))
            ELSE point_at_from(vertices, desired_length, index + 1, reached)

\* Polyline::point_at(t) of src/src/polyline.rs, t = t_num / t_den.
point_at(vertices, t_num, t_den) ==
    IF t_num < 0 \/ t_num > t_den THEN << "panic", 0 >>
    ELSE IF length(vertices)[1] = "panic" THEN << "panic", 0 >>
    ELSE point_at_from(vertices, TruncDiv(length(vertices)[2] * t_num, t_den), 0, 0)

\* Polyline::point_at(t) of src/src/graphics/polyline.rs: it asserts that
\* there is a vertex and answers t == 0.0 and t == 1.0 with the first and
\* the last vertex.
point_at_graphics(vertices, t_num, t_den) ==
    IF get_number_of_vertices(vertices) = 0 \/ t_num < 0 \/ t_num > t_den
    THEN << "panic", 0 >>
    ELSE IF t_num = 0 THEN << "Ok", vertices[1] >>
    ELSE IF t_num = t_den THEN << "Ok", vertices[Len(vertices)] >>
    ELSE point_at_from(vertices, TruncDiv(length(vertices)[2] * t_num, t_den), 0, 0)

\* A subdivision whose loop runs to number_of_subdivisions inclusive.
subdivide_inclusive(segment, number_of_subdivisions) ==
    [division \in 1..number_of_subdivisions |->
        segment_point_at(segment, division, number_of_subdivisions)[2]]

\* The points refine pushes between the two ends of a segment:
\* for division in 1..number_of_subdivisions, at t = division / number.
subdivide(segment, number_of_subdivisions) ==
    [division \in 1..(number_of_subdivisions - 1) |->
        segment_point_at(segment, division, number_of_subdivisions)[2]]

\* refine that pushes the two ends of every segment and nothing between.
RECURSIVE refine_ends_only(_, _, _)
refine_ends_only(vertices, minimum_segment_length, index) ==
    IF index >= get_number_of_vertices(vertices) - 1 THEN << >>
    ELSE << vertices[index + 1], vertices[index + 2] >>
            \o refine_ends_only(vertices, minimum_segment_length, index + 1)

\* The loop of Polyline::refine from segment index on.  The number of
\* subdivisions is (segment.length() / minimum_segment_length) as usize.
RECURSIVE refine_from(_, _, _)
refine_from(vertices, minimum_segment_length, index) ==
    IF index >= get_number_of_vertices(vertices) - 1 THEN << >>
    ELSE
        LET segment == get_segment(vertices, index)
            number_of_subdivisions ==
                segment_length(segment) \div minimum_segment_length
        IN  << segment[1] >> \o subdivide(segment, number_of_subdivisions)
                \o << segment[2] >>
                \o refine_from(vertices, minimum_segment_length, index + 1)

\* Polyline::refine(minimum_segment_length): << outcome, refined vertices >>,
\* the same code in both revisions of polyline.rs.
refine(vertices, minimum_segment_length) ==
    IF get_number_of_vertices(vertices) = 0 THEN << "panic", << >> >>
    ELSE << "Ok", refine_from(vertices, minimum_segment_length, 0) >>

\* get_neighboring_indices_wrapped whose left neighbour does not wrap.
get_neighboring_indices_clamped(number_of_vertices, center_index) ==
    << IF center_index = 0 THEN 0 ELSE center_index - 1,
       IF center_index = number_of_vertices - 1 THEN 0 ELSE center_index + 1 >>

\* Polyline::get_neighboring_indices_wrapped of src/src/polyline.rs:
\* << neighbor_l_index, neighbor_r_index >>.
get_neighboring_indices_wrapped(number_of_vertices, center_index) ==
    << IF center_index = 0 THEN number_of_vertices - 1 ELSE center_index - 1,
       IF center_index = number_of_vertices - 1 THEN 0 ELSE center_index + 1 >>

\* Polyline::get_wrapped_index of src/src/graphics/polyline.rs.
get_wrapped_index(number_of_vertices, index) == index % (number_of_vertices + 1)

\* Polyline::get_neighboring_indices_wrapped of src/src/graphics/polyline.rs.
get_neighboring_indices_wrapped_graphics(number_of_vertices, center_index) ==
    LET wrapped_index == get_wrapped_index(number_of_vertices, center_index)
    IN  << IF wrapped_index = 0 THEN number_of_vertices - 1 ELSE wrapped_index - 1,
           IF wrapped_index = number_of_vertices - 1 THEN 0 ELSE wrapped_index + 1 >>

\* Neighbours that stop at the two ends instead of wrapping around.
relax_neighbors_open(len, index) ==
    << IF index = 0 THEN 0 ELSE index - 1,
       IF index = len - 1 THEN len - 1 ELSE index + 1 >>

\* The neighbours Knot::relax computes for the vertex at index, on p.len().
relax_neighbors(len, index) ==
    << IF index = 0 THEN len - 1 ELSE index - 1,
       IF index = len - 1 THEN 0 ELSE index + 1 >>

----------------------------------------------------------------------------
(* Knot: construction, relax and reset.  A knot is the tuple               *)
(*   << rope, anchors, p, v, a >>                                          *)
(* of the vertices of its rope and its four vectors, in the fixed-point    *)
(* numbers of the polylines above.                                         *)

\* The number of units in 1.0.
Scale == 2 * starting_length

\* constants::EPSILON, the smallest distance at which two beads act on each
\* other: taken to be at most one unit, so that only a distance of zero is
\* below it.
EPSILON == 1

\* vec![Vector3::zero(); n]
zeros(n) == [k \in 1..n |-> 0]

\* Polyline::set_vertices that closes the rope by repeating its first vertex.
set_vertices_closed(vertices) ==
    IF Len(vertices) = 0 THEN vertices ELSE Append(vertices, vertices[1])

\* Polyline::set_vertices: the vertices the polyline holds afterwards.
set_vertices(vertices) == vertices

\* Knot::new(rope, topology)
Knot_new(vertices) ==
    << vertices, vertices, vertices,
       zeros(get_number_of_vertices(vertices)),
       zeros(get_number_of_vertices(vertices)) >>

\* The attractive force of a neighbouring bead: H * r^(1 + beta) along
\* other - center, with H = 1 and beta = 1; nothing below EPSILON.
attraction(center, other) ==
    LET direction == other - center
        r == magnitude(direction)
    IN  IF r < EPSILON THEN 0
        ELSE Sign(direction) * TruncDiv(r * r, Scale)

\* K * r^-(2 + alpha) with K = 0.5 and alpha = 4, for r of at least EPSILON:
\* (Scale / 2) * (Scale / r)^6 units, the quotient taken in two halves.
repulsion_magnitude(r) ==
    TruncDiv(TruncDiv((Scale \div 2) * Scale * Scale * Scale, r * r * r)
                 * Scale * Scale * Scale,
             r * r * r)

\* The repulsive force of a bead that is no neighbour, along center - other;
\* nothing below EPSILON.
repulsion(center, other) ==
    LET direction == center - other
        r == magnitude(direction)
    IN  IF r < EPSILON THEN 0
        ELSE Sign(direction) * repulsion_magnitude(r)

\* The inner loop of relax for the bead at index, from other_index on: the
\* force summed over the other beads.
RECURSIVE force_from(_, _, _)
force_from(pos, index, other_index) ==
    IF other_index >= Len(pos) THEN 0
    ELSE
        LET neighbors == relax_neighbors(Len(pos), index)
            center == pos[index + 1]
            other == pos[other_index + 1]
            term == IF other_index = index THEN 0
                    ELSE IF other_index = neighbors[1] \/ other_index = neighbors[2]
                         THEN attraction(center, other)
                         ELSE repulsion(center, other)
        IN  term + force_from(pos, index, other_index + 1)

\* self.v[index] *= damping, damping = 0.95
damped(x) == TruncDiv(x * 19, 20)

\* The displacement of a bead of velocity x without the limit of d_max.
unclamped(x) == x

\* A cap that stops the vertex instead of moving it by d_max.
clamped_stopping(x) == IF magnitude(x) > d_max THEN 0 ELSE x

\* The displacement of a bead of velocity x: at most d_max along x.
clamped(x) == IF magnitude(x) > d_max THEN Sign(x) * d_max ELSE x

\* relax whose positions are integrated before the velocities: each vertex
\* moves by the velocity it had at entry.
relax_positions_first(knot) ==
    LET len == Len(knot[3])
        acc == [k \in 1..len |-> knot[5][k] + force_from(knot[3], k - 1, 0)]
        pos == [k \in 1..len |-> knot[3][k] + clamped(knot[4][k])]
        vel == [k \in 1..len |-> damped(knot[4][k] + acc[k])]
    IN  << set_vertices(pos), knot[2], pos, vel, zeros(len) >>

\* Knot::relax, its three loops in turn, mass = 1.0: the accelerations from
\* the positions at entry, the velocities, the positions, and the rope.
relax(knot) ==
    LET len == Len(knot[3])
        acc == [k \in 1..len |-> knot[5][k] + force_from(knot[3], k - 1, 0)]
        vel == [k \in 1..len |-> damped(knot[4][k] + acc[k])]
        pos == [k \in 1..len |-> knot[3][k] + clamped(vel[k])]
    IN  << set_vertices(pos), knot[2], pos, vel, zeros(len) >>

\* Knot::reset that leaves the velocities as they are.
reset_keeps_velocity(knot) ==
    << set_vertices(knot[2]), knot[2], set_vertices(knot[2]), knot[4],
       zeros(get_number_of_vertices(set_vertices(knot[2]))) >>

\* Knot::reset
reset(knot) ==
    << set_vertices(knot[2]), knot[2], set_vertices(knot[2]),
       zeros(get_number_of_vertices(set_vertices(knot[2]))),
       zeros(get_number_of_vertices(set_vertices(knot[2]))) >>

\* Every repulsion relax is about to compute fits the 32-bit integers of the
\* model: no two beads that are not neighbours are closer than 17 units
\* (0.2125) without coinciding.
Computable(pos) ==
    \A index, other_index \in 0..(Len(pos) - 1) :
        LET r == magnitude(pos[index + 1] - pos[other_index + 1])
            neighbors == relax_neighbors(Len(pos), index)
        IN  IF other_index \in {index, neighbors[1], neighbors[2]} THEN TRUE
            ELSE IF r < EPSILON THEN TRUE
            ELSE TruncDiv((Scale \div 2) * Scale * Scale * Scale, r * r * r)
                     <= 2147483647 \div (Scale * Scale * Scale)

----------------------------------------------------------------------------
(* The state machine. *)

\* The injective maps of 1..n onto itself.
Perms(n) == {f \in [1..n -> 1..n] : \A a, b \in 1..n : a # b => f[a] # f[b]}

\* The n x n matrix with an x at (r, px[r]) and an o at (r, po[r]).
Grid(n, px, po) ==
    [r \in 1..n |-> [c \in 1..n |->
        IF px[r] = c THEN "x" ELSE IF po[r] = c THEN "o" ELSE " "]]

\* The files the diagrams of Spec are built from: every matrix of 2 to MaxRes
\* rows with one x and one o per row and column.
InitialInputs ==
    UNION { { Grid(n, pp[1], pp[2]) :
                pp \in {qq \in Perms(n) \X Perms(n) :
                           \A r \in 1..n : qq[1][r] # qq[2][r]} } :
            n \in 2..MaxRes }

\* No sequence of translations is being followed.
NoTrail == origin = << >> /\ trail = << >>

\* No polyline is under query.
NoPolyline == polyline = << >> /\ query = << "-", 0, 0 >> /\ answer = << >>

\* No knot has been built.
NoKnot ==
    /\ rope = << >> /\ anchors = << >>
    /\ knot_p = << >> /\ knot_v = << >> /\ knot_a = << >>
    /\ built = << >> /\ old_p = << >> /\ old_v = << >> /\ steps = 0

\* The state after Diagram::from_path(path) returned Ok(diagram).
Init ==
    /\ \E m \in InitialInputs :
           /\ from_path(m).outcome = "Ok"
           /\ data = from_path(m).data
           /\ resolution = from_path(m).resolution
    /\ input = << >>
    /\ op = "from_path"
    /\ move = NoMove
    /\ outcome = "Ok"
    /\ old_data = << >>
    /\ old_resolution = 0
    /\ base_topology = << >>
    /\ knot_topology = << >>
    /\ lifted = << >>
    /\ path = << >>
    /\ NoTrail /\ NoPolyline /\ NoKnot

\* let lift_amount = 0.1, in units.
lift_amount == 8

\* A polyline that leaves every vertex in the plane of the grid.
raw_path_flat(n, topology, lift) ==
    [k \in 1..Len(topology) |->
        LET i == convert_to_grid_indices(n, topology[k])[1]
            j == convert_to_grid_indices(n, topology[k])[2]
        IN  << TruncDiv(j * Scale, n) * n - (n * Scale) \div 2,
               n * Scale - TruncDiv(i * Scale, n) * n - (n * Scale) \div 2,
               0 >>]

\* The vertices generate_knot pushes to path, one for each entry of the
\* resolved circuit: << x, y, z >> with x = (j / resolution) * w - 0.5 * w,
\* y = h - (i / resolution) * h - 0.5 * h for w = h = resolution, and z the
\* lift of the entries that are in lifted.
raw_path(n, topology, lift) ==
    [k \in 1..Len(topology) |->
        LET i == convert_to_grid_indices(n, topology[k])[1]
            j == convert_to_grid_indices(n, topology[k])[2]
        IN  << TruncDiv(j * Scale, n) * n - (n * Scale) \div 2,
               n * Scale - TruncDiv(i * Scale, n) * n - (n * Scale) \div 2,
               IF VecContains(lift, topology[k]) THEN lift_amount ELSE 0 >>]

\* One call diagram.apply_move(cromwell).  A panic ends the process.
Call(cromwell) ==
    \E r \in {apply_move(data, resolution, cromwell)} :
        /\ op # "start"
        /\ outcome \notin {"panic", NotSquare, InvalidMarking}
        /\ data' = r.data
        /\ resolution' = r.resolution
        /\ outcome' = r.outcome
        /\ op' = "apply_move"
        /\ move' = cromwell
        /\ old_data' = data
        /\ old_resolution' = resolution
        /\ base_topology' = << >>
        /\ knot_topology' = << >>
        /\ lifted' = << >>
        /\ path' = << >>
        /\ UNCHANGED input

Translate ==
    /\ \E direction \in Direction : Call(TranslationMove(direction))
    /\ UNCHANGED << trailVars, polylineVars, knotVars >>

\* start_index ranges over the lines and one index past them.
Commute ==
    /\ \E axis \in Axis, start_index \in 0..resolution :
           Call(CommutationMove(axis, start_index))
    /\ UNCHANGED << trailVars, polylineVars, knotVars >>

\* i and j range over the cells and one index past them.
Stabilize ==
    /\ resolution < MaxRes
    /\ \E cardinality \in Cardinality_, i \in 0..resolution, j \in 0..resolution :
           Call(StabilizationMove(cardinality, i, j))
    /\ UNCHANGED << trailVars, polylineVars, knotVars >>

\* One call diagram.generate_knot().
GenerateKnot ==
    \E r \in {generate_knot(data, resolution)} :
        /\ op # "start"
        /\ outcome \notin {"panic", NotSquare, InvalidMarking}
        /\ op' = "generate_knot"
        /\ outcome' = r.outcome
        /\ base_topology' = r.base
        /\ knot_topology' = r.topology
        /\ lifted' = r.lifted
        /\ path' = IF r.outcome = "Ok"
                   THEN raw_path(resolution, r.topology, r.lifted)
                   ELSE << >>
        /\ move' = NoMove
        /\ old_data' = data
        /\ old_resolution' = resolution
        /\ UNCHANGED << input, data, resolution >>
        /\ UNCHANGED << trailVars, polylineVars, knotVars >>

Next == Translate \/ Commute \/ Stabilize \/ GenerateKnot

Spec == Init /\ [][Next]_vars

\* Construction alone: from_path applied to every matrix of at most MaxDim
\* rows and MaxDim columns over the three markers.
Matrices ==
    UNION { [1..R -> [1..C -> Marker]] : R \in 0..MaxDim, C \in 1..MaxDim }

InitFromPath ==
    /\ input \in Matrices
    /\ op = "start"
    /\ outcome = "-"
    /\ data = << >>
    /\ resolution = 0
    /\ move = NoMove
    /\ old_data = << >>
    /\ old_resolution = 0
    /\ base_topology = << >>
    /\ knot_topology = << >>
    /\ lifted = << >>
    /\ path = << >>
    /\ NoTrail /\ NoPolyline /\ NoKnot

FromPath ==
    LET r == from_path(input)
    IN  /\ op = "start"
        /\ op' = "from_path"
        /\ outcome' = r.outcome
        /\ data' = r.data
        /\ resolution' = r.resolution
        /\ UNCHANGED << input, move, old_data, old_resolution, base_topology,
                        knot_topology, lifted, path >>
        /\ UNCHANGED << trailVars, polylineVars, knotVars >>

NextFromPath == FromPath

SpecFromPath == InitFromPath /\ [][NextFromPath]_vars

\* Sequences of translations: from every valid diagram of at most MaxTrailRes
\* rows, at most MaxTrail calls apply_move(Translation(direction)), the grid
\* the sequence started from and the directions taken being remembered.
InitTranslation ==
    /\ \E m \in InitialInputs :
           /\ Len(m) <= MaxTrailRes
           /\ from_path(m).outcome = "Ok"
           /\ data = from_path(m).data
           /\ resolution = from_path(m).resolution
    /\ origin = data
    /\ trail = << >>
    /\ input = << >>
    /\ op = "from_path"
    /\ move = NoMove
    /\ outcome = "Ok"
    /\ old_data = << >>
    /\ old_resolution = 0
    /\ base_topology = << >>
    /\ knot_topology = << >>
    /\ lifted = << >>
    /\ path = << >>
    /\ NoPolyline /\ NoKnot

TranslateAgain ==
    /\ Len(trail) < MaxTrail
    /\ \E direction \in Direction :
           /\ Call(TranslationMove(direction))
           /\ trail' = Append(trail, direction)
    /\ UNCHANGED << origin, polylineVars, knotVars >>

NextTranslation == TranslateAgain

SpecTranslation == InitTranslation /\ [][NextTranslation]_vars

\* Repeated commutations: from every valid diagram of at most MaxRes rows, a
\* call apply_move(Commutation { axis, start_index }) and, as long as the
\* call before returned Ok, the same call again, at most MaxCommutes calls in
\* all; the grid the sequence started from and << axis, start_index, outcome >>
\* of every call are remembered.
InitCommutation ==
    /\ \E m \in InitialInputs :
           /\ from_path(m).outcome = "Ok"
           /\ data = from_path(m).data
           /\ resolution = from_path(m).resolution
    /\ origin = data
    /\ trail = << >>
    /\ input = << >>
    /\ op = "from_path"
    /\ move = NoMove
    /\ outcome = "Ok"
    /\ old_data = << >>
    /\ old_resolution = 0
    /\ base_topology = << >>
    /\ knot_topology = << >>
    /\ lifted = << >>
    /\ path = << >>
    /\ NoPolyline /\ NoKnot

CommuteAgain ==
    /\ Len(trail) < MaxCommutes
    /\ \E axis \in Axis, start_index \in 0..resolution :
           /\ trail # << >> => /\ outcome = "Ok"
                               /\ axis = trail[1][1]
                               /\ start_index = trail[1][2]
           /\ Call(CommutationMove(axis, start_index))
           /\ trail' = Append(trail, << axis, start_index, outcome' >>)
    /\ UNCHANGED << origin, polylineVars, knotVars >>

NextCommutation == CommuteAgain

SpecCommutation == InitCommutation /\ [][NextCommutation]_vars

\* The diagram is not in use.
NoDiagram ==
    /\ input = << >> /\ data = << >> /\ resolution = 0
    /\ move = NoMove /\ old_data = << >> /\ old_resolution = 0
    /\ base_topology = << >> /\ knot_topology = << >> /\ lifted = << >>
    /\ path = << >>

\* The coordinates a vertex is drawn from: 0, 0.5, 1.0, ... in units.
Lattice == {k * starting_length : k \in 0..MaxCoord}

\* The polylines of 1 to MaxVerts vertices on the lattice.
Polylines == UNION { [1..n -> Lattice] : n \in 1..MaxVerts }

\* The parameters of point_at: the eighths from 0 to 1.
Times == {<< k, 8 >> : k \in 0..8}

\* The minimum segment lengths of refine: 0.25, 0.375, 0.5 and 0.75.
MinimumSegmentLengths ==
    { starting_length \div 2, (3 * starting_length) \div 4, starting_length,
      (3 * starting_length) \div 2 }

\* Polyline queries: a polyline built by push_vertex, then any of
\* get_neighboring_indices_wrapped, point_at and refine on it, in any order.
InitPolyline ==
    /\ polyline \in Polylines
    /\ query = << "new", 0, 0 >>
    /\ answer = << >>
    /\ op = "polyline"
    /\ outcome = "Ok"
    /\ NoDiagram /\ NoTrail /\ NoKnot

\* get_neighboring_indices_wrapped(center_index) in both revisions, and the
\* neighbours relax takes for the same index; center_index ranges over the
\* vertices and one index past them.
Neighbors ==
    \E center_index \in 0..Len(polyline) :
        /\ query' = << "get_neighboring_indices_wrapped", center_index, 0 >>
        /\ answer' = << get_neighboring_indices_wrapped(Len(polyline), center_index),
                        get_neighboring_indices_wrapped_graphics(Len(polyline),
                                                                 center_index),
                        relax_neighbors(Len(polyline), center_index) >>
        /\ UNCHANGED << polyline, diagramVars, trailVars, knotVars >>

\* get_wrapped_index(index) of src/src/graphics/polyline.rs, for the indices
\* up to two past the number of vertices.
WrappedIndex ==
    \E index \in 0..(Len(polyline) + 2) :
        /\ query' = << "get_wrapped_index", index, 0 >>
        /\ answer' = << get_wrapped_index(Len(polyline), index) >>
        /\ UNCHANGED << polyline, diagramVars, trailVars, knotVars >>

\* point_at(t) in both revisions.
PointAt ==
    \E t \in Times :
        /\ query' = << "point_at", t[1], t[2] >>
        /\ answer' = << point_at(polyline, t[1], t[2]),
                        point_at_graphics(polyline, t[1], t[2]) >>
        /\ UNCHANGED << polyline, diagramVars, trailVars, knotVars >>

\* refine(minimum_segment_length); the polyline itself is left as it is.
Refine ==
    \E minimum_segment_length \in MinimumSegmentLengths :
        /\ query' = << "refine", minimum_segment_length, 0 >>
        /\ answer' = refine(polyline, minimum_segment_length)
        /\ UNCHANGED << polyline, diagramVars, trailVars, knotVars >>

NextPolyline == Neighbors \/ WrappedIndex \/ PointAt \/ Refine

SpecPolyline == InitPolyline /\ [][NextPolyline]_vars

\* The knot of the state, as the tuple the operators take.
TheKnot == << rope, anchors, knot_p, knot_v, knot_a >>

\* The state holds knot.
Holds(knot) ==
    /\ rope' = knot[1]
    /\ anchors' = knot[2]
    /\ knot_p' = knot[3]
    /\ knot_v' = knot[4]
    /\ knot_a' = knot[5]

\* Knots: Knot::new on a polyline, then relax() and reset() in any order, at
\* most MaxSteps calls of relax.
InitKnot ==
    /\ \E vertices \in Polylines :
           /\ built = vertices
           /\ rope = Knot_new(vertices)[1]
           /\ anchors = Knot_new(vertices)[2]
           /\ knot_p = Knot_new(vertices)[3]
           /\ knot_v = Knot_new(vertices)[4]
           /\ knot_a = Knot_new(vertices)[5]
    /\ old_p = << >>
    /\ old_v = << >>
    /\ steps = 0
    /\ op = "new"
    /\ outcome = "Ok"
    /\ NoDiagram /\ NoTrail /\ NoPolyline

\* One call knot.relax().
Relax ==
    /\ steps < MaxSteps
    /\ Computable(knot_p)
    /\ Holds(relax(TheKnot))
    /\ old_p' = knot_p
    /\ old_v' = knot_v
    /\ steps' = steps + 1
    /\ op' = "relax"
    /\ UNCHANGED << built, input, data, resolution, move, outcome, old_data,
                    old_resolution, base_topology, knot_topology, lifted,
                    path, trailVars, polylineVars >>

\* One call knot.reset().
Reset ==
    /\ Holds(reset(TheKnot))
    /\ op' = "reset"
    /\ UNCHANGED << built, old_p, old_v, steps, input, data, resolution, move, outcome,
                    old_data, old_resolution, base_topology, knot_topology,
                    lifted, path, trailVars, polylineVars >>

NextKnot == Relax \/ Reset

SpecKnot == InitKnot /\ [][NextKnot]_vars

----------------------------------------------------------------------------
(* Vocabulary of the claims, stated on grids and not through the operators *)
(* that model the code.                                                    *)

\* The 0-based positions of marker ch along a line.
Positions(line, ch) == {k \in 0..(Len(line) - 1) : line[k + 1] = ch}

\* The 0-based positions of the marks (x or o) along a line.
MarkPositions(line) == {k \in 0..(Len(line) - 1) : line[k + 1] \in {"x", "o"}}

RowOf(d, r) == d[r + 1]

ColumnOf(d, c) == [r \in 1..Len(d) |-> d[r][c + 1]]

IsSquare(d) == \A r \in 1..Len(d) : Len(d[r]) = Len(d)

\* Every row and every column holds exactly one x and exactly one o.
OneMarkPerLine(d) ==
    /\ IsSquare(d)
    /\ \A k \in 0..(Len(d) - 1) :
           /\ Cardinality(Positions(RowOf(d, k), "x")) = 1
           /\ Cardinality(Positions(RowOf(d, k), "o")) = 1
           /\ Cardinality(Positions(ColumnOf(d, k), "x")) = 1
           /\ Cardinality(Positions(ColumnOf(d, k), "o")) = 1

SetMin(S) == CHOOSE a \in S : \A b \in S : a <= b

SetMax(S) == CHOOSE a \in S : \A b \in S : b <= a

TypedFailures == {NoAdjacentLine, InterleavedLines, NotAnOverMark}

Moved == op = "apply_move"

Succeeded(which) == op = "apply_move" /\ KindOf(move) = which /\ outcome = "Ok"

----------------------------------------------------------------------------
(* C1..C10 *)

\* C1: after any sequence of apply_move calls on a constructed diagram, whether
\* they succeed or fail, every row and every column of the grid holds exactly
\* one x and exactly one o.
C1_OneMarkPerLine == Len(data) = resolution /\ OneMarkPerLine(data)

\* C1 witness: a Stabilization has just succeeded and grown the grid.
C1_Witness ==
    /\ Succeeded("Stabilization")
    /\ resolution = old_resolution + 1
    /\ data # old_data

\* C2: when apply_move returns NoAdjacentLine, InterleavedLines or
\* NotAnOverMark, data and resolution are what they were before the call.
C2_FailureLeavesDiagram ==
    (Moved /\ outcome \in TypedFailures)
        => (data = old_data /\ resolution = old_resolution)

\* C2 witness: a Commutation of two interleaved lines has just been refused.
C2_Witness ==
    /\ Moved
    /\ KindOf(move) = "Commutation"
    /\ outcome = InterleavedLines

\* C3: on every valid diagram generate_knot's base circuit has 2n+1 entries,
\* first and last equal, and the length assertion does not fail.
C3_BaseCircuitLength ==
    op = "generate_knot"
        => /\ outcome = "Ok"
           /\ Len(base_topology) = 2 * resolution + 1
           /\ base_topology[1] = base_topology[Len(base_topology)]

\* v is w with some entries left out, the rest in order.
RECURSIVE IsSubsequence(_, _)
IsSubsequence(v, w) ==
    IF Len(v) = 0 THEN TRUE
    ELSE IF Len(w) = 0 THEN FALSE
    ELSE IF v[1] = w[1] THEN IsSubsequence(Tail(v), Tail(w))
    ELSE IsSubsequence(v, Tail(w))

\* C4: when generate_knot gets past its assertion, the base circuit is a
\* subsequence of the resolved circuit and the resolved circuit is longer than
\* the 2n+1 base entries by exactly the number of entries of lifted.
C4_InsertionOnly ==
    (op = "generate_knot" /\ outcome = "Ok")
        => /\ IsSubsequence(base_topology, knot_topology)
           /\ Len(base_topology) = 2 * resolution + 1
           /\ Len(knot_topology) = 2 * resolution + 1 + Len(lifted)

\* C4 witness: a diagram on which two crossings were inserted.
C4_Witness ==
    /\ op = "generate_knot"
    /\ outcome = "Ok"
    /\ Len(lifted) >= 2
    /\ Len(knot_topology) > Len(base_topology)

\* C5: from_path returns Ok exactly for the square matrices with one x and one
\* o in every row and column, NotSquare for the others that are not square and
\* InvalidMarking for the square ones with a wrongly marked line.
C5_ConstructionIff ==
    op = "from_path"
        => /\ (outcome = "Ok") <=> (IsSquare(input) /\ OneMarkPerLine(input))
           /\ ~IsSquare(input) => outcome = NotSquare
           /\ (IsSquare(input) /\ ~OneMarkPerLine(input)) => outcome = InvalidMarking
           /\ (outcome = "Ok") => (data = input /\ resolution = Len(input))

\* C5 witness: a 2 x 2 matrix has been accepted.
C5_Witness ==
    /\ op = "from_path"
    /\ outcome = "Ok"
    /\ Len(input) = 2
    /\ data = input

\* The interval [lo, hi] of a line's two mark positions.
Interval(line) ==
    [lo |-> SetMin(MarkPositions(line)), hi |-> SetMax(MarkPositions(line))]

\* A lies fully inside B: strictly between B's two marks.
FullyInside(A, B) == B.lo < A.lo /\ A.hi < B.hi

\* A lies fully before B.
FullyBefore(A, B) == A.hi < B.lo

LineOf(d, axis, k) == IF axis = "Row" THEN RowOf(d, k) ELSE ColumnOf(d, k)

\* C6: a Commutation with start_index < n-1 fails with InterleavedLines exactly
\* when neither line's interval lies fully inside the other's and neither lies
\* fully before the other's; otherwise the two lines are exchanged and every
\* other line is unchanged.
C6_CommutationOutcome ==
    (Moved /\ KindOf(move) = "Commutation" /\ StartIndexOf(move) < old_resolution - 1)
        => LET k == StartIndexOf(move)
               A == Interval(LineOf(old_data, AxisOf(move), k))
               B == Interval(LineOf(old_data, AxisOf(move), k + 1))
               free == \/ FullyInside(A, B) \/ FullyInside(B, A)
                       \/ FullyBefore(A, B) \/ FullyBefore(B, A)
           IN  /\ (outcome = InterleavedLines) <=> ~free
               /\ free =>
                    /\ outcome = "Ok"
                    /\ resolution = old_resolution
                    /\ \A m \in 0..(old_resolution - 1) :
                           LineOf(data, AxisOf(move), m) =
                               LineOf(old_data, AxisOf(move),
                                      IF m = k THEN k + 1
                                      ELSE IF m = k + 1 THEN k ELSE m)

\* C6 witness: two lines, one nested in the other, have just been exchanged.
C6_Witness ==
    /\ Succeeded("Commutation")
    /\ data # old_data
    /\ LET A == Interval(LineOf(old_data, AxisOf(move), StartIndexOf(move)))
           B == Interval(LineOf(old_data, AxisOf(move), StartIndexOf(move) + 1))
       IN  FullyInside(A, B) \/ FullyInside(B, A)

\* Where a Stabilization puts its new column and its new row.
InsertedColumn(mv) == IF CardinalityOf(mv) \in {"NW", "SW"} THEN JOf(mv) + 1 ELSE JOf(mv)

InsertedRow(mv) == IF CardinalityOf(mv) \in {"NW", "NE"} THEN IOf(mv) + 1 ELSE IOf(mv)

\* Where the column and the row of the stabilized cell end up.
OriginalColumn(mv) == IF CardinalityOf(mv) \in {"NW", "SW"} THEN JOf(mv) ELSE JOf(mv) + 1

OriginalRow(mv) == IF CardinalityOf(mv) \in {"NW", "NE"} THEN IOf(mv) ELSE IOf(mv) + 1

Shift(k, inserted) == IF k < inserted THEN k ELSE k + 1

\* C7: a successful Stabilization yields a grid one larger in which the new
\* column sits right of column j (NW, SW) or left of it (NE, SE), the new row
\* below row i (NW, NE) or above it (SW, SE), and every original cell but
\* (i, j) keeps its marker at the position shifted past the new row and column.
C7_StabilizationShifts ==
    Succeeded("Stabilization")
        => /\ resolution = old_resolution + 1
           /\ Len(data) = old_resolution + 1
           /\ \A r \in 1..Len(data) : Len(data[r]) = old_resolution + 1
           /\ \A r, c \in 0..(old_resolution - 1) :
                  << r, c >> # << IOf(move), JOf(move) >>
                      => data[Shift(r, InsertedRow(move)) + 1]
                             [Shift(c, InsertedColumn(move)) + 1]
                           = old_data[r + 1][c + 1]

\* C7 witness: an SE Stabilization away from the first row and column, so that
\* cells are shifted down and right.
C7_Witness ==
    /\ Succeeded("Stabilization")
    /\ CardinalityOf(move) = "SE"
    /\ IOf(move) > 0
    /\ JOf(move) > 0

\* The four cells of the 2 x 2 block of the last Stabilization.
Block(mv) ==
    { << r, c >> : r \in {OriginalRow(mv), InsertedRow(mv)},
                   c \in {OriginalColumn(mv), InsertedColumn(mv)} }

MarksInBlock(mv, ch) ==
    Cardinality({cell \in Block(mv) : data[cell[1] + 1][cell[2] + 1] = ch})

\* Every cell of the new row and of the new column outside the block is blank.
RestOfInsertedLinesBlank(mv) ==
    \A k \in 0..(resolution - 1) :
        /\ << InsertedRow(mv), k >> \notin Block(mv)
               => data[InsertedRow(mv) + 1][k + 1] = " "
        /\ << k, InsertedColumn(mv) >> \notin Block(mv)
               => data[k + 1][InsertedColumn(mv) + 1] = " "

\* C8 as claimed: after a successful Stabilization the 2 x 2 block holds exactly
\* one x and exactly one o, and the rest of the new row and column is blank.
C8_BlockOneOverOneUnder ==
    Succeeded("Stabilization")
        => /\ MarksInBlock(move, "x") = 1
           /\ MarksInBlock(move, "o") = 1
           /\ RestOfInsertedLinesBlank(move)

\* C8 amended: after a successful Stabilization the 2 x 2 block holds exactly
\* two x and exactly one o: the stabilized cell (the corner cardinality names)
\* is blank, the cell where the new row and the new column meet holds the o,
\* the other two cells hold an x each; the rest of the new row and of the new
\* column is blank.
C8_BlockTwoOverOneUnder ==
    Succeeded("Stabilization")
        => /\ MarksInBlock(move, "x") = 2
           /\ MarksInBlock(move, "o") = 1
           /\ data[OriginalRow(move) + 1][OriginalColumn(move) + 1] = " "
           /\ data[InsertedRow(move) + 1][InsertedColumn(move) + 1] = "o"
           /\ data[OriginalRow(move) + 1][InsertedColumn(move) + 1] = "x"
           /\ data[InsertedRow(move) + 1][OriginalColumn(move) + 1] = "x"
           /\ RestOfInsertedLinesBlank(move)

\* C8 witness: an SW Stabilization has just succeeded.
C8_Witness ==
    /\ Succeeded("Stabilization")
    /\ CardinalityOf(move) = "SW"
    /\ resolution = old_resolution + 1

\* C9: on a diagram of resolution n >= 2, a Translation succeeds; a Commutation
\* with start_index = n-1 fails with NoAdjacentLine; a Stabilization at a cell
\* (i, j) of the grid fails with NotAnOverMark exactly when the cell is not an x.
C9_MoveOutcomes ==
    Moved
        => /\ KindOf(move) = "Translation" => outcome = "Ok"
           /\ (KindOf(move) = "Commutation" /\ StartIndexOf(move) = old_resolution - 1)
                  => outcome = NoAdjacentLine
           /\ ( /\ KindOf(move) = "Stabilization"
                /\ IOf(move) < old_resolution
                /\ JOf(move) < old_resolution )
                  => ( (outcome = NotAnOverMark)
                          <=> (old_data[IOf(move) + 1][JOf(move) + 1] # "x") )
           /\ ( /\ KindOf(move) = "Stabilization"
                /\ IOf(move) < old_resolution
                /\ JOf(move) < old_resolution
                /\ old_data[IOf(move) + 1][JOf(move) + 1] = "x" )
                  => outcome = "Ok"

\* C9 witness: a Stabilization at an o has just been refused.
C9_Witness ==
    /\ Moved
    /\ KindOf(move) = "Stabilization"
    /\ IOf(move) < old_resolution
    /\ JOf(move) < old_resolution
    /\ old_data[IOf(move) + 1][JOf(move) + 1] = "o"
    /\ outcome = NotAnOverMark

\* C10: no apply_move call, whatever move is supplied, panics: each returns Ok
\* or one of the typed failures.
C10_NeverPanics ==
    Moved => outcome \in {"Ok"} \cup TypedFailures

----------------------------------------------------------------------------
(* C11..C20 *)

\* C11: after any sequence of moves, resolution equals the number of rows and
\* the length of every row; a successful Stabilization has increased it by
\* exactly 1, and a Translation, a Commutation and every failed move have left
\* it as it was.
C11_ResolutionTracksGrid ==
    /\ resolution = Len(data)
    /\ \A r \in 1..Len(data) : Len(data[r]) = resolution
    /\ Moved => IF Succeeded("Stabilization")
                THEN resolution = old_resolution + 1
                ELSE resolution = old_resolution

\* C11 witness: a Stabilization has succeeded on a diagram of 3 rows, which
\* now has 4 rows of 4 cells.
C11_Witness ==
    /\ Succeeded("Stabilization")
    /\ old_resolution = 3
    /\ Len(data) = 4
    /\ \A r \in 1..4 : Len(data[r]) = 4

\* The pairs of opposite directions, in both orders.
OppositePairs ==
    { << "Up", "Down" >>, << "Down", "Up" >>,
      << "Left", "Right" >>, << "Right", "Left" >> }

\* C12: on every valid diagram, a Translation followed by the Translation in
\* the opposite direction (Up then Down, Down then Up, Left then Right, Right
\* then Left) succeeds and returns exactly the grid the pair started from.
C12_TranslationRoundTrip ==
    trail \in OppositePairs
        => /\ outcome = "Ok"
           /\ data = origin
           /\ resolution = Len(origin)

\* C12 witness: Up then Down have been applied, the grid in between differed
\* from the original and the grid now is the original again.
C12_Witness ==
    /\ trail = << "Up", "Down" >>
    /\ old_data # origin
    /\ data = origin

\* The 2 x 2 diagram with an x at (0,0) and (1,1) and an o at (1,0) and (0,1).
TwoByTwo == << << "x", "o" >>, << "o", "x" >> >>

\* Every entry of a vector is zero.
AllZero(vec) == \A k \in 1..Len(vec) : vec[k] = 0

\* C13: after any number of relax() calls, none included, reset() makes the
\* positions p and the vertices of the rope exactly the vertices the knot was
\* constructed with, which the anchors still are, and makes every velocity
\* and every acceleration zero.
C13_ResetRestores ==
    op = "reset"
        => /\ knot_p = built
           /\ rope = built
           /\ anchors = built
           /\ Len(knot_v) = Len(built) /\ AllZero(knot_v)
           /\ Len(knot_a) = Len(built) /\ AllZero(knot_a)

\* C13 witness: reset() has returned after at least two relax() calls, the
\* last of which had started from positions off the anchors.
C13_Witness ==
    /\ op = "reset"
    /\ steps >= 2
    /\ old_p # built
    /\ knot_p = built
    /\ AllZero(knot_v)

\* C14: in every relax() call and for every vertex, the distance between the
\* position of the vertex before the call and its position after the call
\* is at most d_max.
C14_DisplacementClamped ==
    op = "relax"
        => /\ Len(knot_p) = Len(old_p)
           /\ \A k \in 1..Len(knot_p) : magnitude(knot_p[k] - old_p[k]) <= d_max

\* C14 witness: relax() has returned with a vertex whose velocity exceeds
\* d_max and which has moved by d_max exactly.
C14_Witness ==
    /\ op = "relax"
    /\ \E k \in 1..Len(knot_p) :
           /\ magnitude(knot_v[k]) > d_max
           /\ magnitude(knot_p[k] - old_p[k]) = d_max

\* C15: after construction and after any sequence of relax() and reset()
\* calls, the positions, the velocities, the accelerations, the anchors and
\* the vertices of the rope are as many as the vertices the knot was
\* constructed with.
C15_SameLengths ==
    op \in {"new", "relax", "reset"}
        => /\ Len(knot_p) = Len(built)
           /\ Len(knot_v) = Len(built)
           /\ Len(knot_a) = Len(built)
           /\ Len(anchors) = Len(built)
           /\ Len(rope) = Len(built)

\* C15 witness: a knot of 4 vertices after relax(), reset() and relax() again.
C15_Witness ==
    /\ op = "relax"
    /\ steps = 2
    /\ old_p = built
    /\ Len(built) = 4
    /\ Len(knot_a) = 4

\* C16: on the 2 x 2 diagram with OverMarks at (0,0) and (1,1) and UnderMarks
\* at (1,0) and (0,1), generate_knot's resolved circuit is [0, 1, 3, 2, 0],
\* no crossing is inserted into the base circuit and lifted is empty.
C16_TwoByTwoUnknot ==
    (op = "generate_knot" /\ data = TwoByTwo)
        => /\ outcome = "Ok"
           /\ knot_topology = << 0, 1, 3, 2, 0 >>
           /\ knot_topology = base_topology
           /\ lifted = << >>

\* C16 witness: generate_knot has returned on that diagram.
C16_Witness ==
    /\ op = "generate_knot"
    /\ data = TwoByTwo
    /\ outcome = "Ok"
    /\ Len(knot_topology) = 5

\* The cells (r, c) where the edge of row r and the edge of column c cross
\* transversally: c lies strictly between the columns of the two marks of row
\* r and r strictly between the rows of the two marks of column c.
Crossings(d) ==
    { rc \in (0..(Len(d) - 1)) \X (0..(Len(d) - 1)) :
        /\ SetMin(MarkPositions(RowOf(d, rc[1]))) < rc[2]
        /\ rc[2] < SetMax(MarkPositions(RowOf(d, rc[1])))
        /\ SetMin(MarkPositions(ColumnOf(d, rc[2]))) < rc[1]
        /\ rc[1] < SetMax(MarkPositions(ColumnOf(d, rc[2]))) }

\* C20: generate_knot records a crossing for a column edge and a row edge
\* exactly when the column of the column edge lies strictly between the two
\* columns of the row edge and the row of the row edge strictly between the
\* two rows of the column edge, once per such pair, as the absolute index
\* r + c * n of the cell (row of the row edge, column of the column edge);
\* the index is added to lifted and inserted into the circuit.  Edges that
\* touch at an endpoint or are collinear record nothing.
C20_CrossingsRecorded ==
    (op = "generate_knot" /\ outcome = "Ok")
        => /\ {lifted[k] : k \in 1..Len(lifted)}
                = {rc[1] + rc[2] * resolution : rc \in Crossings(data)}
           /\ Len(lifted) = Cardinality(Crossings(data))
           /\ \A k \in 1..Len(lifted) :
                  /\ VecContains(knot_topology, lifted[k])
                  /\ ~VecContains(base_topology, lifted[k])

\* C20 witness: generate_knot has returned on a diagram with at least three
\* crossings, all of them recorded, and with edges that meet at the marks.
C20_Witness ==
    /\ op = "generate_knot"
    /\ outcome = "Ok"
    /\ Cardinality(Crossings(data)) >= 3
    /\ Len(lifted) = Cardinality(Crossings(data))

\* C17: on a polyline of V >= 1 vertices and for every index i in [0, V),
\* get_neighboring_indices_wrapped(i), in both revisions of polyline.rs,
\* returns ((i-1) mod V, (i+1) mod V), so that the left neighbour of index 0
\* is V-1 and the right neighbour of index V-1 is 0, and relax() takes the
\* same two neighbours for vertex i.
C17_NeighborsWrap ==
    (query[1] = "get_neighboring_indices_wrapped" /\ query[2] < Len(polyline))
        => LET V == Len(polyline)
               i == query[2]
               expected == << (i + V - 1) % V, (i + 1) % V >>
           IN  /\ answer[1] = expected
               /\ answer[2] = expected
               /\ answer[3] = expected
               /\ i = 0 => answer[1][1] = V - 1
               /\ i = V - 1 => answer[1][2] = 0

\* C17 witness: the neighbours of index 0 of a polyline of 4 vertices have
\* been asked for, and the left one is index 3.
C17_Witness ==
    /\ query = << "get_neighboring_indices_wrapped", 0, 0 >>
    /\ Len(polyline) = 4
    /\ answer[1] = << 3, 1 >>

\* The lengths of the segments between consecutive vertices.
SegmentLengths(vertices) ==
    {Abs(vertices[k + 1] - vertices[k]) : k \in 1..(Len(vertices) - 1)}

\* C18 as stated: for every polyline and every minimum_segment_length m > 0,
\* no segment between consecutive vertices of the polyline refine(m) returns
\* is longer than m.
C18_NoSegmentLongerThanMinimum ==
    query[1] = "refine"
        => /\ answer[1] = "Ok"
           /\ \A len \in SegmentLengths(answer[2]) : len <= query[2]

\* C18 amended: for every polyline with a vertex and every
\* minimum_segment_length m > 0, every segment between consecutive vertices
\* of the polyline refine(m) returns is shorter than 2 * m.
C18_NoSegmentTwiceMinimum ==
    query[1] = "refine"
        => /\ answer[1] = "Ok"
           /\ \A len \in SegmentLengths(answer[2]) : len < 2 * query[2]

\* C18 witness: refine(m) has cut a segment into pieces and has returned a
\* polyline with a segment longer than m.
C18_Witness ==
    /\ query[1] = "refine"
    /\ answer[1] = "Ok"
    /\ Len(answer[2]) > 2 * (Len(polyline) - 1)
    /\ \E len \in SegmentLengths(answer[2]) : len > query[2]

\* The arc length from the first vertex to the vertex at index k.
RECURSIVE ArcLengthTo(_, _)
ArcLengthTo(vertices, k) ==
    IF k = 0 THEN 0
    ELSE ArcLengthTo(vertices, k - 1) + Abs(vertices[k + 1] - vertices[k])

\* point lies on the polyline at arc length s from the first vertex.
AtArcLength(vertices, s, point) ==
    \E k \in 0..(Len(vertices) - 2) :
        /\ ArcLengthTo(vertices, k) <= s
        /\ s <= ArcLengthTo(vertices, k + 1)
        /\ point = vertices[k + 1]
                     + Sign(vertices[k + 2] - vertices[k + 1])
                         * (s - ArcLengthTo(vertices, k))

\* The arc length t * length() the last point_at was asked for; a whole
\* number of units for the polylines and parameters of the model.
AskedArcLength ==
    (ArcLengthTo(polyline, Len(polyline) - 1) * query[2]) \div query[3]

\* Both revisions of point_at returned the point at the asked arc length.
PointAtReturnedArcPoint ==
    \A r \in {1, 2} :
        /\ answer[r][1] = "Ok"
        /\ AtArcLength(polyline, AskedArcLength, answer[r][2])

\* C19: on a polyline with at least two vertices and for t in [0, 1],
\* point_at(t), in both revisions, returns the point at arc length
\* t * length() from the first vertex along the polyline; so on k+1 equally
\* spaced collinear vertices point_at(j/k) is vertex j, point_at(1/(2k)) the
\* midpoint of the first segment and point_at(1) the last vertex.
C19_PointAtArcLength ==
    (query[1] = "point_at" /\ Len(polyline) >= 2) => PointAtReturnedArcPoint

\* The same on the polylines none of whose segments has length zero.
PointAtOnProperPolylines ==
    (query[1] = "point_at" /\ Len(polyline) >= 2
        /\ 0 \notin SegmentLengths(polyline)) => PointAtReturnedArcPoint

----------------------------------------------------------------------------
(* C21..C30 *)

\* The members of a set of integers as a sequence, ascending or descending.
RECURSIVE InOrder(_, _)
InOrder(S, ascending) ==
    IF S = {} THEN << >>
    ELSE LET first == IF ascending THEN SetMin(S) ELSE SetMax(S)
         IN  << first >> \o InOrder(S \ {first}, ascending)

\* The k-th column edge (k from 0) of a base circuit with its crossings: the
\* endpoint the traversal enters by, the crossings of the column in the order
\* the traversal meets them, the endpoint it leaves by.
ColumnEdgeWithCrossings(d, base, k) ==
    LET n == Len(d)
        from == base[2 * k + 1]
        to == base[2 * k + 2]
        column == from \div n
        rows == {rc[1] : rc \in {x \in Crossings(d) : x[2] = column}}
        met == InOrder(rows, (from % n) < (to % n))
    IN  << from >> \o [q \in 1..Len(met) |-> met[q] + column * n] \o << to >>

\* The base circuit with the crossings of every column edge put between its
\* two endpoints, from the k-th column edge on.
RECURSIVE CircuitWithCrossings(_, _, _)
CircuitWithCrossings(d, base, k) ==
    IF 2 * k + 2 > Len(base) THEN << base[Len(base)] >>
    ELSE ColumnEdgeWithCrossings(d, base, k) \o CircuitWithCrossings(d, base, k + 1)

\* C21: in the resolved circuit the crossings of a column edge stand together
\* between the two endpoints of that edge, in the order the traversal meets
\* them (ascending rows when the edge runs from its smaller row to its larger
\* row, descending rows otherwise), and nothing stands between the two
\* endpoints of a row edge.
C21_CrossingsInTraversalOrder ==
    (op = "generate_knot" /\ outcome = "Ok")
        => knot_topology = CircuitWithCrossings(data, base_topology, 0)

\* C21 witness: generate_knot has returned a circuit in which a column edge
\* run from its smaller row to its larger row carries two crossings.
C21_Witness ==
    /\ op = "generate_knot"
    /\ outcome = "Ok"
    /\ \E k \in 1..(Len(knot_topology) - 3) :
           /\ VecContains(lifted, knot_topology[k + 1])
           /\ VecContains(lifted, knot_topology[k + 2])
           /\ knot_topology[k] < knot_topology[k + 1]
           /\ knot_topology[k + 1] < knot_topology[k + 2]
           /\ knot_topology[k + 2] < knot_topology[k + 3]

\* C22 as the specification words it: after relax() every stored velocity has
\* magnitude at most d_max and every position has changed by the stored
\* velocity.
C22_VelocityScaled ==
    op = "relax"
        => \A k \in 1..Len(knot_p) :
               /\ magnitude(knot_v[k]) <= d_max
               /\ knot_p[k] - old_p[k] = knot_v[k]

\* C22 as the code has it: the stored velocity keeps its integrated value; the
\* position changes by the stored velocity when its magnitude is at most
\* d_max, and by d_max in the direction of the stored velocity otherwise.
C22_CopyScaled ==
    op = "relax"
        => \A k \in 1..Len(knot_p) :
               IF magnitude(knot_v[k]) > d_max
               THEN knot_p[k] - old_p[k] = Sign(knot_v[k]) * d_max
               ELSE knot_p[k] - old_p[k] = knot_v[k]

\* C22 witness: relax() was entered with a stored velocity above d_max, left
\* by the call before, and has left one above d_max again, while the position
\* moved by less than the stored velocity.
C22_Witness ==
    /\ op = "relax"
    /\ \E k \in 1..Len(knot_p) :
           /\ magnitude(old_v[k]) > d_max
           /\ magnitude(knot_v[k]) > d_max
           /\ knot_p[k] - old_p[k] # knot_v[k]

\* The force on vertex i (from 0) of the positions P due to the vertices of
\* the set others: a pull toward each wrap-around neighbour, a push away from
\* every other vertex, nothing from a vertex closer than EPSILON.
RECURSIVE ExpectedForce(_, _, _)
ExpectedForce(P, i, others) ==
    IF others = {} THEN 0
    ELSE
        LET k == CHOOSE x \in others : TRUE
            V == Len(P)
            distance == magnitude(P[k + 1] - P[i + 1])
            toward_k == Sign(P[k + 1] - P[i + 1])
            is_neighbour == k = (i + V - 1) % V \/ k = (i + 1) % V
            term == IF distance < EPSILON THEN 0
                    ELSE IF is_neighbour
                         THEN toward_k * TruncDiv(distance * distance, Scale)
                         ELSE (0 - toward_k) * repulsion_magnitude(distance)
        IN  term + ExpectedForce(P, i, others \ {k})

\* C23: in relax() the force on vertex i is one term for every other vertex
\* k: attractive, from i toward k, exactly when k is one of the two
\* wrap-around neighbours of i, repulsive, from k toward i, otherwise; a pair
\* closer than epsilon contributes nothing and i exerts no force on itself.
\* The velocity relax() stores is the damped sum of the velocity at entry and
\* that force.
C23_OneTermPerOtherVertex ==
    op = "relax"
        => \A k \in 1..Len(knot_v) :
               knot_v[k] = damped(old_v[k]
                   + ExpectedForce(old_p, k - 1, (0..(Len(old_p) - 1)) \ {k - 1}))

\* C23 witness: relax() has run on four vertices of which one had a neighbour
\* at a distance, a neighbour on top of it and a vertex that is no neighbour
\* pushing it away.
C23_Witness ==
    /\ op = "relax"
    /\ Len(old_p) = 4
    /\ \E i \in 0..3 :
           /\ old_p[((i + 1) % 4) + 1] # old_p[i + 1]
           /\ old_p[((i + 3) % 4) + 1] = old_p[i + 1]
           /\ old_p[((i + 2) % 4) + 1] # old_p[i + 1]
           /\ repulsion_magnitude(magnitude(old_p[((i + 2) % 4) + 1] - old_p[i + 1])) > 0
           /\ knot_v[i + 1] # 0

\* floor(L / m) for the segment from vertex s to vertex s + 1 (s from 1).
Pieces(vertices, m, s) == magnitude(vertices[s + 1] - vertices[s]) \div m

\* The number of interior points of that segment: max(0, floor(L / m) - 1).
InteriorPoints(vertices, m, s) ==
    IF Pieces(vertices, m, s) - 1 > 0 THEN Pieces(vertices, m, s) - 1 ELSE 0

\* The number of output vertices that belong to the segments before s.
RECURSIVE EmittedBefore(_, _, _)
EmittedBefore(vertices, m, s) ==
    IF s <= 1 THEN 0
    ELSE EmittedBefore(vertices, m, s - 1) + 2 + InteriorPoints(vertices, m, s - 1)

\* C24: refine(m) emits for each of the V - 1 segments in order its start,
\* max(0, floor(L / m) - 1) equally spaced interior points and its end; the
\* output has 2(V - 1) + the sum of max(0, floor(L / m) - 1) vertices and
\* every interior vertex of the input appears twice in succession.
C24_RefineLayout ==
    (query[1] = "refine" /\ answer[1] = "Ok")
        => LET V == Len(polyline)
               m == query[2]
               out == answer[2]
           IN  /\ Len(out) = EmittedBefore(polyline, m, V)
               /\ \A s \in 1..(V - 1) :
                      LET at == EmittedBefore(polyline, m, s)
                          N == Pieces(polyline, m, s)
                          extra == InteriorPoints(polyline, m, s)
                      IN  /\ out[at + 1] = polyline[s]
                          /\ out[at + extra + 2] = polyline[s + 1]
                          /\ \A division \in 1..extra :
                                 (out[at + 1 + division] - polyline[s]) * N
                                     = (polyline[s + 1] - polyline[s]) * division
               /\ \A j \in 2..(V - 1) :
                      LET at == EmittedBefore(polyline, m, j)
                      IN  out[at] = polyline[j] /\ out[at + 1] = polyline[j]

\* C24 witness: refine has returned on a polyline with an interior vertex, a
\* segment that received at least two interior points and a segment shorter
\* than the minimum.
C24_Witness ==
    /\ query[1] = "refine"
    /\ answer[1] = "Ok"
    /\ Len(polyline) >= 3
    /\ \E s \in 1..(Len(polyline) - 1) : InteriorPoints(polyline, query[2], s) >= 2
    /\ \E s \in 1..(Len(polyline) - 1) : Pieces(polyline, query[2], s) = 0

\* The cell (r, c) of the grid before the last translation is the cell
\* (r + dr mod n, c + dc mod n) of the grid after it.
MovedBy(dr, dc) ==
    LET n == Len(old_data)
    IN  /\ Len(data) = n
        /\ \A r \in 0..(n - 1) :
               /\ Len(data[r + 1]) = n
               /\ \A c \in 0..(n - 1) :
                      data[((r + n + dr) % n) + 1][((c + n + dc) % n) + 1]
                          = old_data[r + 1][c + 1]

\* C25: Translation(Up) moves the row at index r to (r - 1) mod n, Down to
\* (r + 1) mod n, Left moves the column at index c to (c - 1) mod n and Right
\* to (c + 1) mod n, the lines themselves unchanged; n translations in the
\* same direction restore the grid the sequence started from.
C25_TranslationRotates ==
    /\ Len(trail) >= 1
           => /\ outcome = "Ok"
              /\ trail[Len(trail)] = "Up" => MovedBy(-1, 0)
              /\ trail[Len(trail)] = "Down" => MovedBy(1, 0)
              /\ trail[Len(trail)] = "Left" => MovedBy(0, -1)
              /\ trail[Len(trail)] = "Right" => MovedBy(0, 1)
    /\ (Len(trail) = Len(origin) /\ \A k \in 1..Len(trail) : trail[k] = trail[1])
           => data = origin

\* C25 witness: three translations to the left have been applied to a diagram
\* of three rows, the grid before the third differed from the original and
\* the grid now is the original.
C25_Witness ==
    /\ trail = << "Left", "Left", "Left" >>
    /\ Len(origin) = 3
    /\ old_data # origin
    /\ old_data # data
    /\ data = origin

\* C26: for every index >= 0 on a polyline of V >= 1 vertices,
\* get_wrapped_index(index) is a vertex index, at least 0 and below V,
\* indices past the last vertex wrapping to the start of the polyline.
C26_WrappedIndexInRange ==
    query[1] = "get_wrapped_index"
        => /\ answer[1] >= 0
           /\ answer[1] < Len(polyline)

\* C27: within one relax() the force on every vertex comes from the positions
\* all vertices had at the start of the call; all forces are accumulated
\* first, then all velocities are integrated, then all positions are updated
\* with the new velocities and written to the rope, and every acceleration is
\* zero when the call returns.
C27_PhasesInOrder ==
    op = "relax"
        => /\ Len(knot_p) = Len(old_p)
           /\ Len(knot_v) = Len(old_p)
           /\ Len(knot_a) = Len(old_p)
           /\ \A k \in 1..Len(old_p) :
                  LET velocity == damped(old_v[k] + force_from(old_p, k - 1, 0))
                  IN  /\ knot_v[k] = velocity
                      /\ knot_p[k] = old_p[k] + clamped(velocity)
                      /\ knot_a[k] = 0
           /\ rope = knot_p

\* C27 witness: a second relax() has returned, with velocities other than
\* those it was entered with, on positions other than those it was entered
\* with and from which the forces would be different ones.
C27_Witness ==
    /\ op = "relax"
    /\ steps >= 2
    /\ old_v # knot_v
    /\ \E k \in 1..Len(old_v) : old_v[k] # 0
    /\ old_p # knot_p
    /\ Computable(knot_p)
    /\ \E k \in 1..Len(knot_p) :
           force_from(knot_p, k - 1, 0) # force_from(old_p, k - 1, 0)

\* The absolute indices r + c * n of the cells of a grid that hold a mark.
MarkedCells(d) ==
    {rc[1] + rc[2] * Len(d) :
        rc \in {x \in (0..(Len(d) - 1)) \X (0..(Len(d) - 1)) :
                   d[x[1] + 1][x[2] + 1] # " "}}

\* The positions of a vector that hold e.
PositionsOf(vec, e) == {k \in 1..Len(vec) : vec[k] = e}

\* C28: for every valid diagram every index added to lifted is the absolute
\* index of a blank cell and is added once; each crossing index occurs once in
\* the resolved circuit, lifted is disjoint from the 2n marked cells, and in
\* the polyline before refine exactly the crossing vertices have
\* z = lift_amount while every vertex of a marked cell has z = 0.
C28_LiftedAreBlankCells ==
    (op = "generate_knot" /\ outcome = "Ok")
        => /\ Cardinality(MarkedCells(data)) = 2 * resolution
           /\ \A k \in 1..Len(lifted) :
                  /\ lifted[k] \in 0..(resolution * resolution - 1)
                  /\ data[(lifted[k] % resolution) + 1]
                          [(lifted[k] \div resolution) + 1] = " "
                  /\ lifted[k] \notin MarkedCells(data)
                  /\ Cardinality(PositionsOf(lifted, lifted[k])) = 1
                  /\ Cardinality(PositionsOf(knot_topology, lifted[k])) = 1
           /\ Len(path) = Len(knot_topology)
           /\ \A k \in 1..Len(path) :
                  /\ path[k][3] = lift_amount <=> VecContains(lifted, knot_topology[k])
                  /\ path[k][3] # lift_amount => path[k][3] = 0
                  /\ knot_topology[k] \in MarkedCells(data) => path[k][3] = 0

\* C28 witness: generate_knot has returned a polyline with three lifted
\* vertices and more than three vertices in the plane.
C28_Witness ==
    /\ op = "generate_knot"
    /\ outcome = "Ok"
    /\ Cardinality({k \in 1..Len(path) : path[k][3] = lift_amount}) = 3
    /\ Cardinality({k \in 1..Len(path) : path[k][3] = 0}) > 3

\* The pairs of different rows and the pairs of different columns of a grid.
LinePairs(d) ==
    {<< RowOf(d, k[1]), RowOf(d, k[2]) >> :
        k \in {x \in (0..(Len(d) - 1)) \X (0..(Len(d) - 1)) : x[1] < x[2]}}
    \cup {<< ColumnOf(d, k[1]), ColumnOf(d, k[2]) >> :
        k \in {x \in (0..(Len(d) - 1)) \X (0..(Len(d) - 1)) : x[1] < x[2]}}

\* C29: when Commutation { axis, start_index } succeeds, the same Commutation
\* applied again succeeds too and gives back the grid the first one was
\* applied to; the interleaving test answers the same whichever of the two
\* lines is passed first.
C29_CommutationInvolution ==
    /\ (Len(trail) >= 2 /\ trail[Len(trail) - 1][3] = "Ok")
           => /\ outcome = "Ok"
              /\ trail[Len(trail)][3] = "Ok"
              /\ Len(trail) = 2 => data = origin
    /\ \A lines \in LinePairs(data) :
           are_interleaved(lines[1], lines[2]) = are_interleaved(lines[2], lines[1])

\* C29 witness: a commutation of two rows has succeeded twice in a row, the
\* grid between the two differed from the original and the grid now is the
\* original; one of the two rows lies inside the other.
C29_Witness ==
    /\ Len(trail) = 2
    /\ trail[1][1] = "Row"
    /\ trail[1][3] = "Ok"
    /\ trail[2][3] = "Ok"
    /\ old_data # origin
    /\ data = origin
    /\ LET row_a == MarkPositions(RowOf(origin, trail[1][2]))
           row_b == MarkPositions(RowOf(origin, trail[1][2] + 1))
       IN  SetMin(row_a) < SetMin(row_b) /\ SetMax(row_b) < SetMax(row_a)

\* The two adjacent lines the last Commutation was about, of the grid it was
\* applied to.
CommutedLines ==
    IF AxisOf(move) = "Row"
    THEN << RowOf(old_data, StartIndexOf(move)), RowOf(old_data, StartIndexOf(move) + 1) >>
    ELSE << ColumnOf(old_data, StartIndexOf(move)),
            ColumnOf(old_data, StartIndexOf(move) + 1) >>

\* C30: the interleaving test is strict: two adjacent lines with a mark at the
\* same position (equal minima, equal maxima, or the maximum of one equal to
\* the minimum of the other) are interleaved and their Commutation is
\* rejected with InterleavedLines, the grid left as it was; every Commutation
\* on a valid 2 x 2 diagram fails.
C30_SharedMarkRejected ==
    (op = "apply_move" /\ KindOf(move) = "Commutation")
        => /\ (/\ StartIndexOf(move) < Len(old_data) - 1
               /\ MarkPositions(CommutedLines[1]) \cap MarkPositions(CommutedLines[2]) # {})
                  => /\ outcome = InterleavedLines
                     /\ data = old_data
           /\ Len(old_data) = 2 => (outcome # "Ok" /\ data = old_data)

\* C30 witness: a Commutation of two adjacent columns of a grid of four rows,
\* the last mark of the first in the row of the first mark of the second, has
\* been rejected with InterleavedLines.
C30_Witness ==
    /\ op = "apply_move"
    /\ KindOf(move) = "Commutation"
    /\ AxisOf(move) = "Column"
    /\ Len(old_data) = 4
    /\ StartIndexOf(move) < 3
    /\ SetMax(MarkPositions(CommutedLines[1])) = SetMin(MarkPositions(CommutedLines[2]))
    /\ outcome = InterleavedLines

====
